---- MODULE Spec2Model ----
(***************************************************************************)
(* State-machine model of openmls-wasm/src/lib.rs: the Provider /          *)
(* Identity / KeyPackage / Group wrapper around the MLS protocol engine.   *)
(* The wrapper operations are translated from lib.rs; the engine they call *)
(* (MlsGroup, StagedWelcome, the TLS codec) is modelled from spec.md.      *)
(***************************************************************************)
EXTENDS Integers, Sequences, FiniteSets, TLC

\* ------------------------------------------------------------- bounds
NParties == 3
MaxEpoch == 2
MaxKP == 1
NFounders == 1
NProviders == 3
MaxDraws == 2
NIdentities == 3

Parties == 1..NParties
ProviderIds == 1..NProviders
IdentityIds == 1..NIdentities

\* ------------------------------------------------------------- values
\* "hello, bob!" (lib.rs 461) and a one-byte message.
Plaintexts == {<<104, 101, 108, 108, 111, 44, 32, 98, 111, 98, 33>>, <<33>>}
Labels == {"chess_key"}
Contexts == {<<48>>}
KeyLengths == {32}

NoKP == [owner |-> 0, n |-> 0]
NoTree == [gid |-> 0, members |-> {}]

\* The secret a founder's engine draws for epoch 0 of the group it founds.
FoundingSecret(founder) == <<[by |-> founder, adds |-> {}]>>

\* Key schedule step: the next epoch secret is derived from the current one
\* and the content of the commit (committer and the added key packages).
KDF(secret, by, adds) == Append(secret, [by |-> by, adds |-> adds])

\* Exporter: a PRF of the epoch secret, the label, the context and the length.
PRF(secret, label, context, len) ==
    [secret |-> secret, label |-> label, context |-> context, len |-> len]

\* ------------------------------------------------------------- Group
NoGroup ==
    [exists |-> FALSE, gid |-> 0, epoch |-> 0, members |-> {}, secret |-> <<>>,
     proposals |-> {}, state |-> "Unjoined", staged |-> {}, own |-> 0]

\* ------------------------------------------------------------- wire bytes
\* A serialized MlsMessageOut. wire is the declared message type; a private
\* message carries content (application / proposal / commit) encrypted under
\* the sender's epoch secret (key).
Bytes(wire, content, gid, epoch, key, sender, payload, adds, tree) ==
    [wire |-> wire, content |-> content, gid |-> gid, epoch |-> epoch,
     key |-> key, sender |-> sender, payload |-> payload, adds |-> adds,
     tree |-> tree]

Malformed == Bytes("malformed", "none", 0, 0, <<>>, 0, <<>>, {}, {})
GroupInfoBytes == Bytes("group_info", "none", 0, 0, <<>>, 0, <<>>, {}, {})
KeyPackageBytes(kp) ==
    Bytes("key_package", "none", 0, 0, <<>>, kp.owner, <<>>, {[by |-> 0, kp |-> kp]}, {})

\* A public message from outside the group: the owner of kp proposes its own
\* addition to group gid at the given epoch (sender 0: no member).
ExternalJoinBytes(gid, epoch, kp) ==
    Bytes("public", "external_join", gid, epoch, <<>>, 0, <<>>, {[by |-> 0, kp |-> kp]}, {})

\* ------------------------------------------------------------- engine
\* The protocol engine behind the wrapper (MlsGroup, StagedWelcome, the TLS
\* codec), as spec.md sections 4.3 and 7 describe it.

\* MlsMessageIn::tls_deserialize: bytes that are no wire message do not decode.
tls_deserialize(bytes) == [ok |-> bytes.wire # "malformed", msg |-> bytes]

\* Keystore entries.
SigKey(p) == <<"sig", p, 0>>
KpKey(kp) == <<"kp", kp.owner, kp.n>>

\* MlsGroup::builder().build: a new group at epoch 0, the founder its only member.
MlsGroup_build(founder) ==
    [exists |-> TRUE, gid |-> founder, epoch |-> 0, members |-> {founder},
     secret |-> FoundingSecret(founder), proposals |-> {}, state |-> "Active",
     staged |-> {}, own |-> founder]

\* propose_add_member: queue an Add proposal for kp and frame it for the members.
MlsGroup_propose_add_member(g, kp) ==
    IF g.state # "Active"
    THEN [ok |-> FALSE, err |-> "PendingCommit", group |-> g, msg |-> Malformed]
    ELSE LET prop == [by |-> g.own, kp |-> kp]
         IN  [ok |-> TRUE, err |-> "none",
              group |-> [g EXCEPT !.proposals = @ \cup {prop}],
              msg |-> Bytes("private", "proposal", g.gid, g.epoch, g.secret,
                            g.own, <<>>, {prop}, {})]

\* The identities a set of Add proposals brings in.
Added(props) == {pr.kp.owner : pr \in props}

\* An Add is invalid when its identity is already in the tree, or when two
\* Adds of one commit carry the same identity.
ValidAdds(g, props) ==
    /\ \A pr \in props : pr.kp.owner \notin g.members
    /\ \A a, b \in props : a.kp.owner = b.kp.owner => a = b

\* The commit of a set of proposals, staged against g.
Stage(g, by, props) ==
    [by |-> by, props |-> props, members |-> g.members \cup Added(props),
     secret |-> KDF(g.secret, by, props)]

\* commit_to_pending_proposals: commit everything in the proposal store; the
\* commit stays pending, and a welcome is produced when the commit adds members.
MlsGroup_commit_to_pending_proposals(g) ==
    IF g.state # "Active"
    THEN [ok |-> FALSE, err |-> "PendingCommit", group |-> g, commit |-> Malformed,
          welcome |-> {}]
    ELSE IF ~ValidAdds(g, g.proposals)
    THEN [ok |-> FALSE, err |-> "ProposalValidationError", group |-> g,
          commit |-> Malformed, welcome |-> {}]
    ELSE LET st == Stage(g, g.own, g.proposals)
         IN  [ok |-> TRUE, err |-> "none",
              group |-> [g EXCEPT !.state = "PendingCommit", !.staged = {st}],
              commit |-> Bytes("private", "commit", g.gid, g.epoch, g.secret,
                               g.own, <<>>, g.proposals, {}),
              welcome |-> IF g.proposals = {} THEN {}
                          ELSE {Bytes("welcome", "none", g.gid, g.epoch + 1,
                                      st.secret, g.own, <<>>, g.proposals,
                                      st.members)}]

\* Applying a staged commit: the next epoch, its tree and secret; the
\* proposal store and the pending commit are cleared.
Merge(g, st) ==
    [g EXCEPT !.epoch = @ + 1, !.members = st.members, !.secret = st.secret,
              !.proposals = {}, !.state = "Active", !.staged = {}]

\* MlsGroup::merge_pending_commit: without a pending commit, a caller error.
MlsGroup_merge_pending_commit(g) ==
    IF g.state = "PendingCommit"
    THEN [ok |-> TRUE, err |-> "none", group |-> Merge(g, CHOOSE st \in g.staged : TRUE)]
    ELSE [ok |-> FALSE, err |-> "NoPendingCommit", group |-> g]

\* MlsGroup::merge_staged_commit, for a commit received from another member.
MlsGroup_merge_staged_commit(g, st) == [ok |-> TRUE, err |-> "none", group |-> Merge(g, st)]

\* MlsGroup::create_message: valid only in Active state; the plaintext is
\* protected under the current epoch's keys.
MlsGroup_create_message(g, payload) ==
    IF g.state # "Active"
    THEN [ok |-> FALSE, err |-> "PendingCommit", msg |-> Malformed]
    ELSE [ok |-> TRUE, err |-> "none",
          msg |-> Bytes("private", "application", g.gid, g.epoch, g.secret,
                        g.own, payload, {}, {})]

\* Whether g can open a framed message: same group, same epoch, and for a
\* private message the epoch's keys, sent by another member. A public message
\* from a new member is not encrypted.
DecryptError(g, m) ==
    IF m.gid # g.gid THEN "WrongGroupId"
    ELSE IF m.epoch # g.epoch THEN "WrongEpoch"
    ELSE IF m.wire = "public" /\ m.content = "external_join" THEN "none"
    ELSE IF m.key # g.secret THEN "DecryptionFailure"
    ELSE IF m.sender \notin g.members \/ m.sender = g.own THEN "InvalidSender"
    ELSE "none"

NoStaged == [by |-> 0, props |-> {}, members |-> {}, secret |-> <<>>]

\* MlsGroup::process_message: an application message yields its plaintext, a
\* proposal is recorded as pending, a commit is staged against the pending
\* proposals it references.
MlsGroup_process_message(g, m) ==
    LET bad(e) == [ok |-> FALSE, err |-> e, content |-> "none", payload |-> <<>>,
                   staged |-> NoStaged, group |-> g]
    IN  IF DecryptError(g, m) # "none" THEN bad(DecryptError(g, m))
        ELSE IF m.content = "application"
        THEN [ok |-> TRUE, err |-> "none", content |-> "application",
              payload |-> m.payload, staged |-> NoStaged, group |-> g]
        ELSE IF m.content \in {"proposal", "external_join"}
        THEN [ok |-> TRUE, err |-> "none", content |-> m.content, payload |-> <<>>,
              staged |-> NoStaged,
              group |-> [g EXCEPT !.proposals = @ \cup m.adds]]
        ELSE IF ~(m.adds \subseteq g.proposals) THEN bad("MissingProposal")
        ELSE IF ~ValidAdds(g, m.adds) THEN bad("ProposalValidationError")
        ELSE [ok |-> TRUE, err |-> "none", content |-> "commit", payload |-> <<>>,
              staged |-> Stage(g, m.sender, m.adds), group |-> g]

\* MlsGroup::export_secret.
MlsGroup_export_secret(g, label, context, len) ==
    [ok |-> TRUE, err |-> "none", val |-> PRF(g.secret, label, context, len)]

\* MlsGroup::export_ratchet_tree: the public tree of the current epoch.
MlsGroup_export_ratchet_tree(g) == [gid |-> g.gid, members |-> g.members]

\* The key packages of a welcome whose private keys the keystore holds.
Mine(store, w) == {pr.kp : pr \in {x \in w.adds : KpKey(x.kp) \in store}}

\* StagedWelcome::new_from_welcome(..).into_group: the welcome opens with the
\* private key of a key package it targets, and the supplied tree must be the
\* tree of the epoch the welcome targets. The key package is consumed.
StagedWelcome_into_group(store, w, tree) ==
    IF Mine(store, w) = {}
    THEN [ok |-> FALSE, err |-> "NoMatchingKeyPackage", group |-> NoGroup, ks |-> store]
    ELSE IF tree # [gid |-> w.gid, members |-> w.tree]
    THEN [ok |-> FALSE, err |-> "TreeHashMismatch", group |-> NoGroup, ks |-> store]
    ELSE LET kp == CHOOSE k \in Mine(store, w) : TRUE
         IN  [ok |-> TRUE, err |-> "none",
              group |-> [exists |-> TRUE, gid |-> w.gid, epoch |-> w.epoch,
                         members |-> w.tree, secret |-> w.key, proposals |-> {},
                         state |-> "Active", staged |-> {}, own |-> kp.owner],
              ks |-> store \ {KpKey(kp)}]

\* ------------------------------------------------------------- lib.rs
\* Each operation returns its outcome ("ok": Ok(..); "err": Err(JsError);
\* "panic": the call aborts), the error kind, the returned value and the
\* Group / keystore it leaves behind.

\* The error kinds of spec.md section 7 for the JsErrors lib.rs raises itself.
SerializationFailure == "SerializationFailure"
UnexpectedMessageType == "UnexpectedMessageType"
UnsupportedInboundType == "UnsupportedInboundType"
NoWelcomeProduced == "NoWelcomeProduced"

\* The seed length Provider::create demands (lib.rs 52).
SeedLen == 32

\* Option<Vec<u8>>.
None == [some |-> FALSE, bytes |-> <<>>]
Some(bytes) == [some |-> TRUE, bytes |-> bytes]

\* [b; n]: n bytes b.
Fill(b, n) == [i \in 1..n |-> b]

\* The seeds a caller passes: none, the tests' [42u8; 32] and [43u8; 32]
\* (lib.rs 477, 491-492), and seeds that are empty, one byte short or one
\* byte long.
SeedInputs ==
    {None, Some(<<>>), Some(Fill(42, SeedLen - 1)), Some(Fill(42, SeedLen)),
     Some(Fill(43, SeedLen)), Some(Fill(42, SeedLen + 1))}

\* What the operating system's entropy source may return for one draw.
Entropy == {[os |-> 1], [os |-> 2]}

\* The seeded generator's n-th output: a function of the seed and n alone,
\* distinct for distinct seeds or positions.
PRG(seed, n) == [seed |-> seed, n |-> n]

\* OpenMlsRustCrypto::with_seed and OpenMlsRustCrypto::default: an empty
\* key store and a generator that is seeded, or fed by the operating system.
OpenMlsRustCrypto_with_seed(seed) ==
    [exists |-> TRUE, seeded |-> TRUE, seed |-> seed, drawn |-> 0, ks |-> {}]

OpenMlsRustCrypto_default ==
    [exists |-> TRUE, seeded |-> FALSE, seed |-> <<>>, drawn |-> 0, ks |-> {}]

NoProvider ==
    [exists |-> FALSE, seeded |-> FALSE, seed |-> <<>>, drawn |-> 0, ks |-> {}]

\* OpenMlsRand::random_array: the next draw of the provider's generator;
\* entropy is what the operating system returns if the generator asks it.
random_array(provider, entropy) ==
    [val |-> IF provider.seeded THEN PRG(provider.seed, provider.drawn + 1)
             ELSE entropy,
     provider |-> [provider EXCEPT !.drawn = @ + 1]]

InvalidSeedLength == "InvalidSeedLength"

\* Provider::create that takes any seed of at least 32 bytes.
Provider_create_min_len(seed) ==
    IF seed.some
    THEN IF Len(seed.bytes) < SeedLen
         THEN [outcome |-> "err", err |-> InvalidSeedLength, val |-> NoProvider]
         ELSE [outcome |-> "ok", err |-> "none",
               val |-> OpenMlsRustCrypto_with_seed(seed.bytes)]
    ELSE [outcome |-> "ok", err |-> "none", val |-> OpenMlsRustCrypto_default]

\* Provider::create that checks the seed and then builds the default provider.
Provider_create_unseeded(seed) ==
    IF seed.some /\ Len(seed.bytes) # SeedLen
    THEN [outcome |-> "err", err |-> InvalidSeedLength, val |-> NoProvider]
    ELSE [outcome |-> "ok", err |-> "none", val |-> OpenMlsRustCrypto_default]

\* Provider::create (lib.rs 50-60).
Provider_create(seed) ==
    IF seed.some
    THEN IF Len(seed.bytes) # SeedLen
         THEN [outcome |-> "err", err |-> InvalidSeedLength, val |-> NoProvider]
         ELSE [outcome |-> "ok", err |-> "none",
               val |-> OpenMlsRustCrypto_with_seed(seed.bytes)]
    ELSE [outcome |-> "ok", err |-> "none", val |-> OpenMlsRustCrypto_default]

\* ------------------------------------------------------------- Identity
\* name.bytes(): the UTF-8 bytes of the display names the tests use.
Names == {"alice", "bob"}
Utf8(name) == IF name = "alice" THEN <<97, 108, 105, 99, 101>> ELSE <<98, 111, 98>>

\* SignatureScheme::ED25519 (0x0807) on the wire.
Ed25519 == <<8, 7>>

\* The private keys key generation may produce, and the public key of each.
PrivKeys == {<<1, 2>>, <<3, 4>>}
PublicOf(private) == [i \in DOMAIN private |-> (private[i] * 3 + 1) % 256]

\* SignatureKeyPair::new: a fresh keypair from the entropy it is given.
SignatureKeyPair_new(private) ==
    [ok |-> TRUE,
     val |-> [private |-> private, public |-> PublicOf(private),
              signature_scheme |-> Ed25519]]

NoKeypair == [private |-> <<>>, public |-> <<>>, signature_scheme |-> <<>>]

\* SignatureKeyPair::tls_serialize_detached: the private key and the public
\* key as length-prefixed byte vectors, then the two bytes of the scheme.
SignatureKeyPair_tls_serialize(keypair) ==
    <<Len(keypair.private)>> \o keypair.private
        \o <<Len(keypair.public)>> \o keypair.public \o keypair.signature_scheme

\* Reading one length-prefixed byte vector.
ReadVec(bytes) ==
    IF bytes = <<>> \/ Len(bytes) < 1 + bytes[1]
    THEN [ok |-> FALSE, val |-> <<>>, rest |-> <<>>]
    ELSE [ok |-> TRUE, val |-> SubSeq(bytes, 2, 1 + bytes[1]),
          rest |-> SubSeq(bytes, 2 + bytes[1], Len(bytes))]

\* SignatureKeyPair::tls_deserialize: fails on bytes that end early or name
\* no signature scheme.
SignatureKeyPair_tls_deserialize(bytes) ==
    LET a == ReadVec(bytes)
        b == ReadVec(a.rest)
    IN  IF ~a.ok \/ ~b.ok \/ Len(b.rest) < 2 \/ SubSeq(b.rest, 1, 2) # Ed25519
        THEN [ok |-> FALSE, val |-> NoKeypair]
        ELSE [ok |-> TRUE,
              val |-> [private |-> a.val, public |-> b.val,
                       signature_scheme |-> SubSeq(b.rest, 1, 2)]]

\* The KeyStore entry of a signing keypair, filed under its public key.
StoredKeypair(keypair) == <<"sig", keypair.public, keypair.private>>

\* SignatureKeyPair::store: write the keypair into the provider's KeyStore.
SignatureKeyPair_store(provider, keypair, storeOk) ==
    IF ~storeOk
    THEN [ok |-> FALSE, provider |-> provider]
    ELSE [ok |-> TRUE,
          provider |-> [provider EXCEPT !.ks = @ \cup {StoredKeypair(keypair)}]]

StorageWriteFailure == "StorageWriteFailure"

NoIdentity ==
    [exists |-> FALSE, credential_with_key |-> [credential |-> <<>>, signature_key |-> <<>>],
     keypair |-> NoKeypair]

\* Identity::create that generates a new keypair whatever bytes it is given.
Identity_create_fresh_key(provider, name, keypair_bytes, fresh, storeOk) ==
    LET k == SignatureKeyPair_new(fresh)
        st == SignatureKeyPair_store(provider, k.val, storeOk)
    IN  IF ~st.ok
        THEN [outcome |-> "err", err |-> StorageWriteFailure, val |-> NoIdentity,
              provider |-> st.provider]
        ELSE [outcome |-> "ok", err |-> "none",
              val |-> [exists |-> TRUE,
                       credential_with_key |->
                           [credential |-> Utf8(name), signature_key |-> k.val.public],
                       keypair |-> k.val],
              provider |-> st.provider]

\* Identity::create that returns the Identity without storing its keypair.
Identity_create_no_store(provider, name, keypair_bytes, fresh, storeOk) ==
    LET k == IF keypair_bytes.some
             THEN SignatureKeyPair_tls_deserialize(keypair_bytes.bytes)
             ELSE SignatureKeyPair_new(fresh)
    IN  IF ~k.ok
        THEN [outcome |-> "err", err |-> SerializationFailure, val |-> NoIdentity,
              provider |-> provider]
        ELSE [outcome |-> "ok", err |-> "none",
              val |-> [exists |-> TRUE,
                       credential_with_key |->
                           [credential |-> Utf8(name), signature_key |-> k.val.public],
                       keypair |-> k.val],
              provider |-> provider]

\* Identity::create (lib.rs 72-94): the credential from the name; the keypair
\* deserialized from the bytes given, or generated; the keypair stored; each
\* step returns early with `?`.
Identity_create(provider, name, keypair_bytes, fresh, storeOk) ==
    LET k == IF keypair_bytes.some
             THEN SignatureKeyPair_tls_deserialize(keypair_bytes.bytes)
             ELSE SignatureKeyPair_new(fresh)
        st == SignatureKeyPair_store(provider, k.val, storeOk)
    IN  IF ~k.ok
        THEN [outcome |-> "err", err |-> SerializationFailure, val |-> NoIdentity,
              provider |-> provider]
        ELSE IF ~st.ok
        THEN [outcome |-> "err", err |-> StorageWriteFailure, val |-> NoIdentity,
              provider |-> st.provider]
        ELSE [outcome |-> "ok", err |-> "none",
              val |-> [exists |-> TRUE,
                       credential_with_key |->
                           [credential |-> Utf8(name), signature_key |-> k.val.public],
                       keypair |-> k.val],
              provider |-> st.provider]

\* Identity::get_public_key_bytes (lib.rs 111-113).
get_public_key_bytes(identity) == identity.keypair.public

\* Identity::export_keypair_bytes (lib.rs 116-118).
export_keypair_bytes(identity) ==
    [outcome |-> "ok", err |-> "none",
     val |-> SignatureKeyPair_tls_serialize(identity.keypair)]

\* What Identity::get_key_package hands the builder (lib.rs 98-104): the
\* identity's credential and signature key; n numbers the one-time parts.
KeyPackageOf(identity, n) ==
    [owner |-> identity.credential_with_key.credential, n |-> n,
     signature_key |-> identity.credential_with_key.signature_key]

\* Identity::get_key_package (lib.rs 96-109): .build(..).unwrap().
get_key_package(store, kp, engineOk) ==
    IF ~engineOk
    THEN [outcome |-> "panic", err |-> "none", val |-> NoKP, ks |-> store]
    ELSE [outcome |-> "ok", err |-> "none", val |-> kp, ks |-> store \cup {KpKey(kp)}]

\* Group::create_new (lib.rs 159-173): .build(..).unwrap().
create_new(founder, engineOk) ==
    IF ~engineOk
    THEN [outcome |-> "panic", err |-> "none", group |-> NoGroup]
    ELSE [outcome |-> "ok", err |-> "none", group |-> MlsGroup_build(founder)]

\* join that passes no ratchet tree to the engine (None for Some(ratchet_tree.0)).
join_without_tree(store, bytes, tree) ==
    LET d == tls_deserialize(bytes)
    IN  IF ~d.ok
        THEN [outcome |-> "err", err |-> SerializationFailure, group |-> NoGroup,
              ks |-> store]
        ELSE IF d.msg.wire # "welcome"
        THEN [outcome |-> "err", err |-> UnexpectedMessageType, group |-> NoGroup,
              ks |-> store]
        ELSE LET r == StagedWelcome_into_group(store, d.msg, NoTree)
             IN  IF ~r.ok
                 THEN [outcome |-> "err", err |-> r.err, group |-> NoGroup, ks |-> r.ks]
                 ELSE [outcome |-> "ok", err |-> "none", group |-> r.group, ks |-> r.ks]

\* join that takes whatever decodes for a welcome.
join_any_type(store, bytes, tree) ==
    LET d == tls_deserialize(bytes)
    IN  IF ~d.ok
        THEN [outcome |-> "err", err |-> SerializationFailure, group |-> NoGroup,
              ks |-> store]
        ELSE LET r == StagedWelcome_into_group(store, d.msg, tree)
             IN  IF ~r.ok
                 THEN [outcome |-> "err", err |-> r.err, group |-> NoGroup, ks |-> r.ks]
                 ELSE [outcome |-> "ok", err |-> "none", group |-> r.group, ks |-> r.ks]

\* join that ignores the tree it is given and takes the one the welcome
\* describes.
join_tree_of_welcome(store, bytes, tree) ==
    LET d == tls_deserialize(bytes)
    IN  IF ~d.ok
        THEN [outcome |-> "err", err |-> SerializationFailure, group |-> NoGroup,
              ks |-> store]
        ELSE IF d.msg.wire # "welcome"
        THEN [outcome |-> "err", err |-> UnexpectedMessageType, group |-> NoGroup,
              ks |-> store]
        ELSE LET r == StagedWelcome_into_group(store, d.msg,
                          [gid |-> d.msg.gid, members |-> d.msg.tree])
             IN  IF ~r.ok
                 THEN [outcome |-> "err", err |-> r.err, group |-> NoGroup, ks |-> r.ks]
                 ELSE [outcome |-> "ok", err |-> "none", group |-> r.group, ks |-> r.ks]

\* Group::join (lib.rs 174-191).
join(store, bytes, tree) ==
    LET d == tls_deserialize(bytes)
    IN  IF ~d.ok
        THEN [outcome |-> "err", err |-> SerializationFailure, group |-> NoGroup,
              ks |-> store]
        ELSE IF d.msg.wire # "welcome"
        THEN [outcome |-> "err", err |-> UnexpectedMessageType, group |-> NoGroup,
              ks |-> store]
        ELSE LET r == StagedWelcome_into_group(store, d.msg, tree)
             IN  IF ~r.ok
                 THEN [outcome |-> "err", err |-> r.err, group |-> NoGroup, ks |-> r.ks]
                 ELSE [outcome |-> "ok", err |-> "none", group |-> r.group, ks |-> r.ks]

\* export_ratchet_tree that hands out the tree without the newest leaf.
export_ratchet_tree_stale(g) ==
    [gid |-> g.gid, members |-> g.members \ {CHOOSE m \in g.members : \A x \in g.members : x <= m}]

\* Group::export_ratchet_tree (lib.rs 193-195).
export_ratchet_tree(g) == MlsGroup_export_ratchet_tree(g)

\* propose_and_commit_add that merges the commit it has just produced.
propose_and_commit_add_merging(g, kp) ==
    LET p == MlsGroup_propose_add_member(g, kp)
        c == MlsGroup_commit_to_pending_proposals(p.group)
    IN  IF ~p.ok
        THEN [outcome |-> "err", err |-> p.err, group |-> p.group, out |-> {}]
        ELSE IF ~c.ok
        THEN [outcome |-> "err", err |-> c.err, group |-> c.group, out |-> {}]
        ELSE IF c.welcome = {}
        THEN [outcome |-> "err", err |-> NoWelcomeProduced, group |-> c.group,
              out |-> {}]
        ELSE [outcome |-> "ok", err |-> "none",
              group |-> MlsGroup_merge_pending_commit(c.group).group,
              out |-> {p.msg, c.commit} \cup c.welcome]

\* propose_and_commit_add that drops a pending commit before it starts.
propose_and_commit_add_replacing(g, kp) ==
    LET g0 == [g EXCEPT !.state = "Active", !.staged = {}]
        p == MlsGroup_propose_add_member(g0, kp)
        c == MlsGroup_commit_to_pending_proposals(p.group)
    IN  IF ~p.ok
        THEN [outcome |-> "err", err |-> p.err, group |-> p.group, out |-> {}]
        ELSE IF ~c.ok
        THEN [outcome |-> "err", err |-> c.err, group |-> c.group, out |-> {}]
        ELSE IF c.welcome = {}
        THEN [outcome |-> "err", err |-> NoWelcomeProduced, group |-> c.group,
              out |-> {}]
        ELSE [outcome |-> "ok", err |-> "none", group |-> c.group,
              out |-> {p.msg, c.commit} \cup c.welcome]

\* Group::propose_and_commit_add (lib.rs 197-222): propose, then commit the
\* pending proposals, then require a welcome; each step returns early with `?`.
propose_and_commit_add(g, kp) ==
    LET p == MlsGroup_propose_add_member(g, kp)
        c == MlsGroup_commit_to_pending_proposals(p.group)
    IN  IF ~p.ok
        THEN [outcome |-> "err", err |-> p.err, group |-> p.group, out |-> {}]
        ELSE IF ~c.ok
        THEN [outcome |-> "err", err |-> c.err, group |-> c.group, out |-> {}]
        ELSE IF c.welcome = {}
        THEN [outcome |-> "err", err |-> NoWelcomeProduced, group |-> c.group,
              out |-> {}]
        ELSE [outcome |-> "ok", err |-> "none", group |-> c.group,
              out |-> {p.msg, c.commit} \cup c.welcome]

\* merge_pending_commit that reports success without calling the engine.
merge_pending_commit_skip(g) == [outcome |-> "ok", err |-> "none", group |-> g]

\* merge_pending_commit that drops the engine's error (.ok() for .map_err(..)).
merge_pending_commit_swallow(g) ==
    [outcome |-> "ok", err |-> "none", group |-> MlsGroup_merge_pending_commit(g).group]

\* Group::merge_pending_commit (lib.rs 224-228).
merge_pending_commit(g) ==
    LET r == MlsGroup_merge_pending_commit(g)
    IN  IF r.ok
        THEN [outcome |-> "ok", err |-> "none", group |-> r.group]
        ELSE [outcome |-> "err", err |-> r.err, group |-> r.group]

\* create_message that frames the plaintext whatever the engine answers.
create_message_any_state(g, payload) ==
    [outcome |-> "ok", err |-> "none",
     val |-> Bytes("private", "application", g.gid, g.epoch, g.secret, g.own,
                   payload, {}, {})]

\* Group::create_message (lib.rs 230-242).
create_message(g, payload) ==
    LET r == MlsGroup_create_message(g, payload)
    IN  IF r.ok
        THEN [outcome |-> "ok", err |-> "none", val |-> r.msg]
        ELSE [outcome |-> "err", err |-> r.err, val |-> Malformed]

\* process_message that returns on a staged commit without merging it.
process_message_no_merge(g, bytes) ==
    LET d == tls_deserialize(bytes)
        r == MlsGroup_process_message(g, d.msg)
    IN  IF ~d.ok \/ d.msg.wire \in {"welcome", "group_info", "key_package"}
        THEN [outcome |-> "panic", err |-> "none", val |-> <<>>, group |-> g]
        ELSE IF ~r.ok
        THEN [outcome |-> "err", err |-> r.err, val |-> <<>>, group |-> r.group]
        ELSE IF r.content = "application"
        THEN [outcome |-> "ok", err |-> "none", val |-> r.payload, group |-> r.group]
        ELSE [outcome |-> "ok", err |-> "none", val |-> <<>>, group |-> r.group]

\* process_message that answers an application message with an empty result.
process_message_drop_plaintext(g, bytes) ==
    LET d == tls_deserialize(bytes)
        r == MlsGroup_process_message(g, d.msg)
        m == MlsGroup_merge_staged_commit(r.group, r.staged)
    IN  IF ~d.ok \/ d.msg.wire \in {"welcome", "group_info", "key_package"}
        THEN [outcome |-> "panic", err |-> "none", val |-> <<>>, group |-> g]
        ELSE IF ~r.ok
        THEN [outcome |-> "err", err |-> r.err, val |-> <<>>, group |-> r.group]
        ELSE IF r.content \in {"application", "proposal", "external_join"}
        THEN [outcome |-> "ok", err |-> "none", val |-> <<>>, group |-> r.group]
        ELSE [outcome |-> "ok", err |-> "none", val |-> <<>>, group |-> m.group]

\* process_message that applies a proposal at once, as if it were a commit.
process_message_apply_proposal(g, bytes) ==
    LET d == tls_deserialize(bytes)
        r == MlsGroup_process_message(g, d.msg)
        m == MlsGroup_merge_staged_commit(r.group, r.staged)
    IN  IF ~d.ok \/ d.msg.wire \in {"welcome", "group_info", "key_package"}
        THEN [outcome |-> "panic", err |-> "none", val |-> <<>>, group |-> g]
        ELSE IF ~r.ok
        THEN [outcome |-> "err", err |-> r.err, val |-> <<>>, group |-> r.group]
        ELSE IF r.content = "application"
        THEN [outcome |-> "ok", err |-> "none", val |-> r.payload, group |-> r.group]
        ELSE IF r.content \in {"proposal", "external_join"}
        THEN [outcome |-> "ok", err |-> "none", val |-> <<>>,
              group |-> Merge(g, Stage(g, d.msg.sender, d.msg.adds))]
        ELSE [outcome |-> "ok", err |-> "none", val |-> <<>>, group |-> m.group]

\* process_message that answers an engine error with an empty result
\* (.ok() for `?`).
process_message_mask_errors(g, bytes) ==
    LET d == tls_deserialize(bytes)
        r == MlsGroup_process_message(g, d.msg)
        m == MlsGroup_merge_staged_commit(r.group, r.staged)
    IN  IF ~d.ok \/ d.msg.wire \in {"welcome", "group_info", "key_package"}
        THEN [outcome |-> "panic", err |-> "none", val |-> <<>>, group |-> g]
        ELSE IF ~r.ok
        THEN [outcome |-> "ok", err |-> "none", val |-> <<>>, group |-> r.group]
        ELSE IF r.content = "application"
        THEN [outcome |-> "ok", err |-> "none", val |-> r.payload, group |-> r.group]
        ELSE IF r.content \in {"proposal", "external_join"}
        THEN [outcome |-> "ok", err |-> "none", val |-> <<>>, group |-> r.group]
        ELSE [outcome |-> "ok", err |-> "none", val |-> <<>>, group |-> m.group]

\* process_message that answers a proposal without keeping what the engine
\* recorded.
process_message_forget_proposal(g, bytes) ==
    LET d == tls_deserialize(bytes)
        r == MlsGroup_process_message(g, d.msg)
        m == MlsGroup_merge_staged_commit(r.group, r.staged)
    IN  IF ~d.ok \/ d.msg.wire \in {"welcome", "group_info", "key_package"}
        THEN [outcome |-> "panic", err |-> "none", val |-> <<>>, group |-> g]
        ELSE IF ~r.ok
        THEN [outcome |-> "err", err |-> r.err, val |-> <<>>, group |-> r.group]
        ELSE IF r.content = "application"
        THEN [outcome |-> "ok", err |-> "none", val |-> r.payload, group |-> r.group]
        ELSE IF r.content \in {"proposal", "external_join"}
        THEN [outcome |-> "ok", err |-> "none", val |-> <<>>, group |-> g]
        ELSE [outcome |-> "ok", err |-> "none", val |-> <<>>, group |-> m.group]

\* Group::process_message (lib.rs 244-278): tls_deserialize(..).unwrap(); a
\* public or private message goes to the engine; the welcome, group-info and
\* key-package arms are todo!(); a staged commit is merged at once.
process_message(g, bytes) ==
    LET d == tls_deserialize(bytes)
        r == MlsGroup_process_message(g, d.msg)
        m == MlsGroup_merge_staged_commit(r.group, r.staged)
    IN  IF ~d.ok
        THEN [outcome |-> "panic", err |-> "none", val |-> <<>>, group |-> g]
        ELSE IF d.msg.wire \in {"welcome", "group_info", "key_package"}
        THEN [outcome |-> "panic", err |-> "none", val |-> <<>>, group |-> g]
        ELSE IF ~r.ok
        THEN [outcome |-> "err", err |-> r.err, val |-> <<>>, group |-> r.group]
        ELSE IF r.content = "application"
        THEN [outcome |-> "ok", err |-> "none", val |-> r.payload, group |-> r.group]
        ELSE IF r.content \in {"proposal", "external_join"}
        THEN [outcome |-> "ok", err |-> "none", val |-> <<>>, group |-> r.group]
        ELSE IF ~m.ok
        THEN [outcome |-> "err", err |-> m.err, val |-> <<>>, group |-> m.group]
        ELSE [outcome |-> "ok", err |-> "none", val |-> <<>>, group |-> m.group]

\* export_key that derives from the member's own leaf instead of the epoch.
export_key_own_leaf(g, label, context, len) ==
    [outcome |-> "ok", err |-> "none",
     val |-> PRF(Append(g.secret, [by |-> g.own, adds |-> {}]), label, context, len)]

\* Group::export_key (lib.rs 280-293).
export_key(g, label, context, len) ==
    LET r == MlsGroup_export_secret(g, label, context, len)
    IN  IF r.ok
        THEN [outcome |-> "ok", err |-> "none", val |-> r.val]
        ELSE [outcome |-> "err", err |-> r.err, val |-> PRF(<<>>, label, context, len)]

\* ------------------------------------------------------------- state
\* ks[p]      the KeyStore of party p's Provider
\* kpCount[p] the number of KeyPackages p's Identity has minted
\* group[p]   the Group instance p holds (NoGroup before createNew / join)
\* lineage[p] the founding event and the commits p's Group was derived from
\* how[p]     the call that brought p's Group to its epoch, or that panicked
\* net        the serialized handshake messages produced so far
\* welcomed   for each welcome produced, the lineage it leads to
\* trees      the RatchetTree last exported and handed to a joiner
\* exportedAt the epoch of the exporting Group when that tree was exported
\* aborted[p] whether a call of p panicked
VARIABLES ks, kpCount, group, lineage, how, net, welcomed, trees, exportedAt, aborted

\* providers[x] the Provider constructed in slot x (NoProvider before create)
\* seedOf[x]    the seed last passed to Provider.create for slot x
\* draws[x]     the values drawn so far from provider x's entropy source
VARIABLES providers, seedOf, draws

\* identities[i] the Identity constructed in slot i (NoIdentity before create)
\* madeBy[i]     the last Identity.create call for slot i: its provider, name,
\*               keypair bytes and error
\* exported      the keypair bytes exported so far
VARIABLES identities, madeBy, exported

gvars == <<ks, kpCount, group, lineage, how, net, welcomed, trees, exportedAt, aborted>>
pvars == <<providers, seedOf, draws>>
ivars == <<identities, madeBy, exported>>
vars == <<ks, kpCount, group, lineage, how, net, welcomed, trees, exportedAt, aborted,
          providers, seedOf, draws, identities, madeBy, exported>>

Minted == {[owner |-> p, n |-> k] : p \in Parties, k \in 1..MaxKP}

\* The key packages published so far.
Published == {k \in Minted : k.n <= kpCount[k.owner]}

\* Bytes a caller may pass that no Group of the model produced.
Junk == {Malformed, GroupInfoBytes, KeyPackageBytes([owner |-> 1, n |-> 1])}

\* The application messages the members can create in this state. They are
\* delivered at once or not at all; handshake messages stay in net.
InFlight ==
    {r.val : r \in {x \in {create_message(group[q], payload) :
                                q \in {m \in Parties : group[m].exists},
                                payload \in Plaintexts} : x.outcome = "ok"}}

\* The identity that asks to be let in by external-join proposals.
Outsiders == {NParties}

\* The external-join proposals outsiders holding a published key package can
\* send to the groups of this state. Like application messages they are
\* delivered at once or not at all.
ExternalJoins ==
    {ExternalJoinBytes(group[q].gid, group[q].epoch, kp) :
        q \in {m \in Parties : group[m].exists},
        kp \in {k \in Published : k.owner \in Outsiders /\ ~group[k.owner].exists}}

\* The declared type of serialized bytes.
Kind(bytes) == IF bytes.wire \in {"private", "public"} THEN bytes.content ELSE bytes.wire

\* What a caller may pass to join and process_message.
Inbound == net \cup Junk \cup InFlight \cup ExternalJoins

Event(by, adds) == [by |-> by, adds |-> adds]

\* The group lifecycle starts with every party's Provider and Identity made:
\* the signing key is in the party's KeyStore.
InitGroups ==
    /\ ks = [p \in Parties |-> {SigKey(p)}]
    /\ kpCount = [p \in Parties |-> 0]
    /\ group = [p \in Parties |-> NoGroup]
    /\ lineage = [p \in Parties |-> <<>>]
    /\ how = [p \in Parties |-> "none"]
    /\ net = {}
    /\ welcomed = {}
    /\ trees = {}
    /\ exportedAt = 0
    /\ aborted = [p \in Parties |-> FALSE]

InitProviders ==
    /\ providers = [x \in ProviderIds |-> NoProvider]
    /\ seedOf = [x \in ProviderIds |-> None]
    /\ draws = [x \in ProviderIds |-> <<>>]

NotMade == [provider |-> 0, name |-> "", bytes |-> None, err |-> "none"]

InitIdentities ==
    /\ identities = [i \in IdentityIds |-> NoIdentity]
    /\ madeBy = [i \in IdentityIds |-> NotMade]
    /\ exported = {}

Init == InitGroups /\ InitProviders /\ InitIdentities

\* A panic ends the caller's process: its Provider, Identity and Group are gone.
Panicked(p, op) ==
    /\ aborted' = [aborted EXCEPT ![p] = TRUE]
    /\ ks' = [ks EXCEPT ![p] = {}]
    /\ group' = [group EXCEPT ![p] = NoGroup]
    /\ lineage' = [lineage EXCEPT ![p] = <<>>]
    /\ how' = [how EXCEPT ![p] = op]

GetKeyPackage(p) ==
    /\ ~aborted[p]
    /\ kpCount[p] < MaxKP
    /\ \E engineOk \in BOOLEAN :
         LET kp == [owner |-> p, n |-> kpCount[p] + 1]
             r == get_key_package(ks[p], kp, engineOk)
         IN  IF r.outcome = "panic"
             THEN Panicked(p, "get_key_package") /\ UNCHANGED kpCount
             ELSE /\ ks' = [ks EXCEPT ![p] = r.ks]
                  /\ kpCount' = [kpCount EXCEPT ![p] = @ + 1]
                  /\ UNCHANGED <<group, lineage, how, aborted>>
    /\ UNCHANGED <<net, welcomed, trees, exportedAt>>
    /\ UNCHANGED <<pvars, ivars>>

CreateNew(p) ==
    /\ ~aborted[p]
    /\ p <= NFounders
    /\ ~group[p].exists
    /\ \E engineOk \in BOOLEAN :
         LET r == create_new(p, engineOk)
         IN  IF r.outcome = "panic"
             THEN Panicked(p, "create_new")
             ELSE /\ group' = [group EXCEPT ![p] = r.group]
                  /\ lineage' = [lineage EXCEPT ![p] = <<Event(p, {})>>]
                  /\ how' = [how EXCEPT ![p] = "create_new"]
                  /\ UNCHANGED <<ks, aborted>>
    /\ UNCHANGED <<kpCount, net, welcomed, trees, exportedAt>>
    /\ UNCHANGED <<pvars, ivars>>

Join(p) ==
    /\ ~aborted[p]
    /\ ~group[p].exists
    /\ \E bytes \in Inbound, tree \in trees \cup {NoTree} :
         LET r == join(ks[p], bytes, tree)
         IN  /\ group' = [group EXCEPT ![p] = r.group]
             /\ ks' = [ks EXCEPT ![p] = r.ks]
             /\ lineage' = [lineage EXCEPT ![p] =
                                IF r.outcome = "ok"
                                THEN (CHOOSE w \in welcomed : w.msg = bytes).lin
                                ELSE @]
             /\ how' = [how EXCEPT ![p] = IF r.outcome = "ok" THEN "join" ELSE @]
    /\ UNCHANGED <<kpCount, net, welcomed, trees, exportedAt, aborted>>
    /\ UNCHANGED <<pvars, ivars>>

ExportRatchetTree(p) ==
    /\ ~aborted[p]
    /\ group[p].exists
    /\ trees' = {export_ratchet_tree(group[p])}
    /\ exportedAt' = group[p].epoch
    /\ UNCHANGED <<ks, kpCount, group, lineage, how, net, welcomed, aborted>>
    /\ UNCHANGED <<pvars, ivars>>

ProposeAndCommitAdd(p) ==
    /\ ~aborted[p]
    /\ group[p].exists
    /\ group[p].epoch < MaxEpoch
    /\ \E kp \in Published :
         LET r == propose_and_commit_add(group[p], kp)
             adds == {[by |-> p, kp |-> kp]} \cup group[p].proposals
         IN  /\ group' = [group EXCEPT ![p] = r.group]
             /\ net' = net \cup r.out
             /\ welcomed' = welcomed \cup
                    {[msg |-> w, lin |-> Append(lineage[p], Event(p, adds))] :
                        w \in {m \in r.out : m.wire = "welcome"}}
    /\ UNCHANGED <<ks, kpCount, lineage, how, trees, exportedAt, aborted>>
    /\ UNCHANGED <<pvars, ivars>>

MergePendingCommit(p) ==
    /\ ~aborted[p]
    /\ group[p].exists
    /\ LET r == merge_pending_commit(group[p])
       IN  /\ group' = [group EXCEPT ![p] = r.group]
           /\ lineage' = [lineage EXCEPT ![p] =
                              IF r.outcome = "ok"
                              THEN Append(@, Event(p, UNION {st.props : st \in group[p].staged}))
                              ELSE @]
           /\ how' = [how EXCEPT ![p] =
                          IF r.outcome = "ok" THEN "merge_pending_commit" ELSE @]
    /\ UNCHANGED <<ks, kpCount, net, welcomed, trees, exportedAt, aborted>>
    /\ UNCHANGED <<pvars, ivars>>

CreateMessage(p) ==
    /\ ~aborted[p]
    /\ group[p].exists
    /\ \E payload \in Plaintexts :
         create_message(group[p], payload).outcome \in {"ok", "err"}
    /\ UNCHANGED vars

ProcessMessage(p) ==
    /\ ~aborted[p]
    /\ group[p].exists
    /\ \E bytes \in Inbound :
         LET r == process_message(group[p], bytes)
         IN  IF r.outcome = "panic"
             THEN Panicked(p, "process_message")
             ELSE /\ group' = [group EXCEPT ![p] = r.group]
                  /\ lineage' = [lineage EXCEPT ![p] =
                                     IF r.outcome = "ok" /\ bytes.content = "commit"
                                     THEN Append(@, Event(bytes.sender, bytes.adds))
                                     ELSE @]
                  /\ how' = [how EXCEPT ![p] =
                                 IF r.outcome = "ok" /\ bytes.content = "commit"
                                 THEN "process_message" ELSE @]
                  /\ UNCHANGED <<ks, aborted>>
    /\ UNCHANGED <<kpCount, net, welcomed, trees, exportedAt>>
    /\ UNCHANGED <<pvars, ivars>>

ExportKey(p) ==
    /\ ~aborted[p]
    /\ group[p].exists
    /\ \E label \in Labels, context \in Contexts, len \in KeyLengths :
         export_key(group[p], label, context, len).outcome \in {"ok", "err"}
    /\ UNCHANGED vars

Next ==
    \E p \in Parties :
        \/ GetKeyPackage(p)
        \/ CreateNew(p)
        \/ Join(p)
        \/ ExportRatchetTree(p)
        \/ ProposeAndCommitAdd(p)
        \/ MergePendingCommit(p)
        \/ CreateMessage(p)
        \/ ProcessMessage(p)
        \/ ExportKey(p)

Spec == Init /\ [][Next]_vars

\* ------------------------------------------------------------- providers
\* Provider construction and the draws the tests make from its entropy
\* source (lib.rs 475-502).
ProviderCreate(x) ==
    /\ ~providers[x].exists
    /\ \E seed \in SeedInputs :
         LET r == Provider_create(seed)
         IN  /\ providers' = [providers EXCEPT ![x] = r.val]
             /\ seedOf' = [seedOf EXCEPT ![x] = seed]
    /\ UNCHANGED <<draws, gvars, ivars>>

RandomArray(x) ==
    /\ providers[x].exists
    /\ providers[x].drawn < MaxDraws
    /\ \E entropy \in Entropy :
         LET r == random_array(providers[x], entropy)
         IN  /\ providers' = [providers EXCEPT ![x] = r.provider]
             /\ draws' = [draws EXCEPT ![x] = Append(@, r.val)]
    /\ UNCHANGED <<seedOf, gvars, ivars>>

NextProvider == \E x \in ProviderIds : ProviderCreate(x) \/ RandomArray(x)

SpecProvider == Init /\ [][NextProvider]_vars

\* ------------------------------------------------------------- identities
\* Identity construction and recovery (lib.rs 504-540), each Identity under
\* one of the Providers, all made without a seed.
InitIdentity ==
    /\ InitGroups
    /\ providers = [x \in ProviderIds |-> Provider_create(None).val]
    /\ seedOf = [x \in ProviderIds |-> None]
    /\ draws = [x \in ProviderIds |-> <<>>]
    /\ InitIdentities

\* Keypair bytes that do not deserialize: empty, and a vector cut short.
BadKeypairBytes == {<<>>, <<2, 1>>}

\* What a caller may pass as keypair bytes.
KeypairInputs == {None} \cup {Some(b) : b \in exported \cup BadKeypairBytes}

IdentityCreate(i, x) ==
    /\ ~identities[i].exists
    /\ madeBy[i] = NotMade
    /\ \E name \in Names, keypair_bytes \in KeypairInputs, fresh \in PrivKeys,
          storeOk \in BOOLEAN :
         LET r == Identity_create(providers[x], name, keypair_bytes, fresh, storeOk)
         IN  /\ identities' = [identities EXCEPT ![i] = r.val]
             /\ providers' = [providers EXCEPT ![x] = r.provider]
             /\ madeBy' = [madeBy EXCEPT ![i] =
                               [provider |-> x, name |-> name, bytes |-> keypair_bytes,
                                err |-> r.err]]
    /\ UNCHANGED <<exported, seedOf, draws, gvars>>

ExportKeypairBytes(i) ==
    /\ identities[i].exists
    /\ LET r == export_keypair_bytes(identities[i])
       IN  exported' = exported \cup {r.val}
    /\ UNCHANGED <<identities, madeBy, pvars, gvars>>

NextIdentity ==
    \/ \E i \in IdentityIds, x \in ProviderIds : IdentityCreate(i, x)
    \/ \E i \in IdentityIds : ExportKeypairBytes(i)

SpecIdentity == InitIdentity /\ [][NextIdentity]_vars

\* ------------------------------------------------------------- claims

\* Two Groups of the same logical group: the same founding event and the
\* same sequence of commits.
SameGroup(p, q) ==
    /\ group[p].exists
    /\ group[q].exists
    /\ lineage[p] = lineage[q]

\* C1: two Groups derived from the same founding event and the same sequence
\* of add commits, at the same epoch, export identical bytes for the same
\* label, context and length.
C1_SharedSecretAgreement ==
    \A p, q \in Parties :
        (SameGroup(p, q) /\ group[p].epoch = group[q].epoch) =>
            \A label \in Labels, context \in Contexts, len \in KeyLengths :
                /\ export_key(group[p], label, context, len).outcome = "ok"
                /\ export_key(group[p], label, context, len).val
                       = export_key(group[q], label, context, len).val

\* C1 witness: a committer that merged, a joiner and a member that processed
\* the commit hold the same group at the same epoch.
C1_Witness ==
    \E p, q, m \in Parties :
        /\ SameGroup(p, q) /\ SameGroup(p, m)
        /\ how[p] = "merge_pending_commit"
        /\ how[q] = "join"
        /\ how[m] = "process_message"
        /\ group[p].epoch = group[q].epoch
        /\ group[p].epoch = group[m].epoch

\* F merged the commit that produced welcome w, and M holds the private key of
\* a key package w targets.
Welcomes(F, M, w) ==
    /\ w \in net
    /\ w.wire = "welcome"
    /\ w.sender = F
    /\ group[F].exists
    /\ how[F] = "merge_pending_commit"
    /\ [msg |-> w, lin |-> lineage[F]] \in welcomed
    /\ M # F
    /\ ~aborted[M]
    /\ Mine(ks[M], w) # {}

\* C2: after createNew, proposeAndCommitAdd(M's KeyPackage), mergePendingCommit
\* and exportRatchetTree by F, join by M with the welcome and that tree, under
\* the Provider that minted the KeyPackage, succeeds; M's Group is at the epoch
\* the welcome targets, which is F's epoch, with F's member set ({F, M} when F
\* added M to the group it founded).
C2_AddJoinConsistency ==
    \A F, M \in Parties : \A w \in net :
        Welcomes(F, M, w) =>
            LET r == join(ks[M], w, export_ratchet_tree(group[F]))
            IN  /\ r.outcome = "ok"
                /\ r.group.epoch = w.epoch
                /\ r.group.epoch = group[F].epoch
                /\ r.group.members = group[F].members
                /\ {F, M} \subseteq r.group.members
                /\ (how[F] = "merge_pending_commit" /\ Len(lineage[F]) = 2
                        /\ group[F].gid = F /\ Added(w.adds) = {M})
                       => r.group.members = {F, M}

\* C2 witness: M joined the group F founded, with the tree F exported after
\* merging, and both are at epoch 1 with members {F, M}.
C2_Witness ==
    \E F, M \in Parties :
        /\ F # M
        /\ SameGroup(F, M)
        /\ how[F] = "merge_pending_commit"
        /\ how[M] = "join"
        /\ group[F].gid = F
        /\ group[M].epoch = 1
        /\ group[M].members = {F, M}
        /\ trees = {export_ratchet_tree(group[F])}

\* C3: between two members of the same group at the same epoch, both Active,
\* processMessage of what createMessage returns for a non-empty plaintext
\* succeeds, returns that plaintext, and leaves the receiver's epoch and member
\* set unchanged.
C3_MessageRoundTrip ==
    \A A, B \in Parties : \A payload \in Plaintexts :
        (A # B /\ SameGroup(A, B) /\ group[A].state = "Active"
               /\ group[B].state = "Active" /\ payload # <<>>) =>
            LET c == create_message(group[A], payload)
                r == process_message(group[B], c.val)
            IN  /\ c.outcome = "ok"
                /\ r.outcome = "ok"
                /\ r.val = payload
                /\ r.group.epoch = group[B].epoch
                /\ r.group.members = group[B].members

\* C3 witness: a founder and a joiner, both Active at the same epoch, and the
\* joiner reads the founder's "hello, bob!".
C3_Witness ==
    \E A, B \in Parties :
        /\ A # B
        /\ SameGroup(A, B)
        /\ how[B] = "join"
        /\ group[A].state = "Active"
        /\ group[B].state = "Active"
        /\ process_message(group[B],
               create_message(group[A],
                   <<104, 101, 108, 108, 111, 44, 32, 98, 111, 98, 33>>).val).val
             = <<104, 101, 108, 108, 111, 44, 32, 98, 111, 98, 33>>

\* C4: join given bytes that decode to a message that is no welcome fails with
\* UnexpectedMessageType, returns no Group and leaves the KeyStore unchanged.
C4_JoinRejectsNonWelcome ==
    \A p \in Parties : \A bytes \in Inbound : \A tree \in trees \cup {NoTree} :
        (~aborted[p] /\ Kind(bytes) \in {"application", "proposal", "commit",
                                          "group_info", "key_package"}) =>
            LET r == join(ks[p], bytes, tree)
            IN  /\ r.outcome = "err"
                /\ r.err = UnexpectedMessageType
                /\ r.group = NoGroup
                /\ r.ks = ks[p]

\* C4 witness: a party holding the private key of a published key package is
\* handed the commit that adds it (not the welcome) and an exported tree.
C4_Witness ==
    \E p \in Parties : \E bytes \in net :
        /\ ~group[p].exists
        /\ Kind(bytes) = "commit"
        /\ Mine(ks[p], bytes) # {}
        /\ trees # {}
        /\ \A tree \in trees : join(ks[p], bytes, tree).err = UnexpectedMessageType

\* C5: processMessage given a welcome, group-info or key-package returns the
\* failure UnsupportedInboundType to the caller, and the Group's epoch,
\* pending proposals and pending commit are unchanged.
C5_UnsupportedInboundIsError ==
    \A p \in Parties : \A bytes \in Inbound :
        (group[p].exists /\ bytes.wire \in {"welcome", "group_info", "key_package"}) =>
            LET r == process_message(group[p], bytes)
            IN  /\ r.outcome = "err"
                /\ r.err = UnsupportedInboundType
                /\ r.group.epoch = group[p].epoch
                /\ r.group.proposals = group[p].proposals
                /\ r.group.staged = group[p].staged

\* C6: no operation fails by terminating the process: processMessage given
\* bytes that do not decode returns SerializationFailure and leaves the Group
\* unchanged, and getKeyPackage and createNew never abort.
C6_NoOperationAborts ==
    /\ \A p \in Parties :
           group[p].exists =>
               LET r == process_message(group[p], Malformed)
               IN  /\ r.outcome = "err"
                   /\ r.err = SerializationFailure
                   /\ r.group = group[p]
    /\ \A p \in Parties : ~aborted[p]

\* C7: a successful proposeAndCommitAdd on an Active Group at epoch e leaves it
\* in PendingCommit at epoch e, its member set without the new member and its
\* exported secret that of epoch e; that stays so while the commit is pending.
C7_AfterAdd ==
    \A p \in Parties : \A kp \in Published :
        (group[p].exists /\ group[p].state = "Active") =>
            LET r == propose_and_commit_add(group[p], kp)
            IN  r.outcome = "ok" =>
                    /\ r.group.state = "PendingCommit"
                    /\ r.group.epoch = group[p].epoch
                    /\ r.group.members = group[p].members
                    /\ kp.owner \notin r.group.members
                    /\ \A label \in Labels, context \in Contexts, len \in KeyLengths :
                           export_key(r.group, label, context, len)
                               = export_key(group[p], label, context, len)

C7_WhilePending ==
    \A p \in Parties :
        (group[p].state = "PendingCommit" /\ group'[p].state = "PendingCommit") =>
            /\ group'[p].epoch = group[p].epoch
            /\ group'[p].members = group[p].members
            /\ group'[p].secret = group[p].secret
            /\ group'[p].staged = group[p].staged

C7_AddDoesNotAdvance == [] C7_AfterAdd /\ [][C7_WhilePending]_vars

\* C7 witness: a Group in PendingCommit whose staged commit adds a party that
\* is not yet among its members.
C7_Witness ==
    \E p \in Parties :
        /\ group[p].state = "PendingCommit"
        /\ \E st \in group[p].staged : Added(st.props) \cap group[p].members = {}

\* C8: mergePendingCommit on a Group in PendingCommit at epoch e leaves it
\* Active at epoch e+1 with the new member in and no pending commit or
\* proposals; a Group's epoch never decreases, and changes only through
\* mergePendingCommit or processMessage of a commit.
C8_MergeMoves ==
    \A p \in Parties :
        group[p].state = "PendingCommit" =>
            LET r == merge_pending_commit(group[p])
            IN  /\ r.outcome = "ok"
                /\ r.group.state = "Active"
                /\ r.group.epoch = group[p].epoch + 1
                /\ \A st \in group[p].staged : Added(st.props) \subseteq r.group.members
                /\ r.group.members # group[p].members
                /\ r.group.staged = {}
                /\ r.group.proposals = {}

C8_EpochStep ==
    \A p \in Parties :
        (group[p].exists /\ group'[p].exists /\ group'[p].epoch # group[p].epoch) =>
            /\ group'[p].epoch = group[p].epoch + 1
            /\ how'[p] \in {"merge_pending_commit", "process_message"}
            /\ \/ group'[p] = merge_pending_commit(group[p]).group
               \/ \E bytes \in Inbound :
                      /\ Kind(bytes) = "commit"
                      /\ group'[p] = process_message(group[p], bytes).group

C8_MergeAdvancesEpoch == [] C8_MergeMoves /\ [][C8_EpochStep]_vars

\* C8 witness: a Group that merged its pending commit and is Active at the
\* next epoch with the added member.
C8_Witness ==
    \E p \in Parties :
        /\ how[p] = "merge_pending_commit"
        /\ group[p].state = "Active"
        /\ group[p].epoch = 1
        /\ Cardinality(group[p].members) = 2

\* C9: mergePendingCommit on a Group in Active state does not complete
\* successfully and does not advance the epoch, so a commit is merged once
\* however often mergePendingCommit is called.
C9_MergeWithoutPending ==
    \A p \in Parties :
        (group[p].exists /\ group[p].state = "Active") =>
            LET r == merge_pending_commit(group[p])
            IN  /\ r.outcome # "ok"
                /\ r.group = group[p]

\* C9 witness: a Group that has merged its commit once; merging again fails.
C9_Witness ==
    \E p \in Parties :
        /\ how[p] = "merge_pending_commit"
        /\ group[p].state = "Active"
        /\ merge_pending_commit(group[p]).outcome = "err"

\* C10: when an Active Group at epoch e processes a commit for epoch e that the
\* engine accepts, processMessage returns an empty result and the Group is
\* Active at epoch e+1, the committed proposals applied, the pending proposals
\* cleared and no commit pending.
C10_InboundCommitMerges ==
    \A p \in Parties : \A bytes \in Inbound :
        (group[p].exists /\ group[p].state = "Active" /\ Kind(bytes) = "commit"
            /\ MlsGroup_process_message(group[p], bytes).ok) =>
            LET r == process_message(group[p], bytes)
            IN  /\ r.outcome = "ok"
                /\ r.val = <<>>
                /\ r.group.state = "Active"
                /\ r.group.epoch = group[p].epoch + 1
                /\ r.group.members = group[p].members \cup Added(bytes.adds)
                /\ r.group.proposals = {}
                /\ r.group.staged = {}

\* C10 witness: a member that processed another member's commit is Active at
\* the next epoch, with the committer's member set.
C10_Witness ==
    \E p, c \in Parties :
        /\ p # c
        /\ SameGroup(p, c)
        /\ how[p] = "process_message"
        /\ how[c] = "merge_pending_commit"
        /\ group[p].state = "Active"
        /\ group[p].epoch = 2
        /\ group[p].members = group[c].members

C12_CreateMessageOnlyWhenActive ==
    \A p \in Parties : \A payload \in Plaintexts :
        group[p].exists =>
            LET c == create_message(group[p], payload)
            IN  /\ group[p].state = "PendingCommit" =>
                       /\ c.outcome = "err"
                       /\ c.val = Malformed
                /\ group[p].state = "Active" =>
                       /\ c.outcome = "ok"
                       /\ Kind(c.val) = "application"
                       /\ c.val.gid = group[p].gid
                       /\ c.val.epoch = group[p].epoch
                       /\ c.val.key = group[p].secret
                       /\ \A q \in Parties :
                              (group[q].exists
                                 /\ process_message(group[q], c.val).outcome = "ok") =>
                                  /\ group[q].epoch = group[p].epoch
                                  /\ group[q].secret = group[p].secret

\* C12 witness: a Group in PendingCommit after proposeAndCommitAdd, refused
\* by createMessage, beside an Active member of the same group that is served.
C12_Witness ==
    \E p, q \in Parties : \E payload \in Plaintexts :
        /\ SameGroup(p, q)
        /\ group[p].state = "PendingCommit"
        /\ group[p].staged # {}
        /\ create_message(group[p], payload).outcome = "err"
        /\ group[q].state = "Active"
        /\ create_message(group[q], payload).outcome = "ok"

\* C13: Provider.create with a seed of any length other than 32 bytes, the
\* empty seed included, fails with InvalidSeedLength and constructs no
\* Provider; with a seed of exactly 32 bytes or with no seed it succeeds.
C13_SeedLengthValidated ==
    /\ \A seed \in SeedInputs :
           LET r == Provider_create(seed)
           IN  IF seed.some /\ Len(seed.bytes) # 32
               THEN r.outcome = "err" /\ r.err = InvalidSeedLength /\ r.val = NoProvider
               ELSE r.outcome = "ok" /\ r.val.exists
    /\ \A x \in ProviderIds :
           (seedOf[x].some /\ Len(seedOf[x].bytes) # 32) => providers[x] = NoProvider

\* C13 witness: create was refused for the empty seed, and has made a
\* Provider from a 32-byte seed and one from no seed.
C13_Witness ==
    \E x, y, z \in ProviderIds :
        /\ seedOf[x] = Some(<<>>) /\ ~providers[x].exists
        /\ seedOf[y].some /\ Len(seedOf[y].bytes) = 32 /\ providers[y].exists
        /\ seedOf[z] = None /\ providers[z].exists

\* Providers x and y were both created with a 32-byte seed.
BothSeeded(x, y) ==
    /\ providers[x].exists /\ seedOf[x].some
    /\ providers[y].exists /\ seedOf[y].some

\* C16: two Providers created with the same 32-byte seed have drawn the same
\* value at every position both have reached, and the next draw of each is the
\* same whenever they have made the same number of draws; two Providers
\* created with different seeds have different first draws.
C16_SeededDeterminism ==
    \A x, y \in ProviderIds :
        BothSeeded(x, y) =>
            /\ seedOf[x] = seedOf[y] =>
                   /\ \A k \in DOMAIN draws[x] \cap DOMAIN draws[y] :
                          draws[x][k] = draws[y][k]
                   /\ providers[x].drawn = providers[y].drawn =>
                          \A e1, e2 \in Entropy :
                              random_array(providers[x], e1).val
                                  = random_array(providers[y], e2).val
            /\ seedOf[x] # seedOf[y] =>
                   /\ \A e1, e2 \in Entropy :
                          random_array(Provider_create(seedOf[x]).val, e1).val
                              # random_array(Provider_create(seedOf[y]).val, e2).val
                   /\ (draws[x] # <<>> /\ draws[y] # <<>>) => draws[x][1] # draws[y][1]

\* C16 witness: two Providers of the seed [42u8; 32] and one of [43u8; 32],
\* each after two draws.
C16_Witness ==
    \E x, y, z \in ProviderIds :
        /\ x # y
        /\ BothSeeded(x, y) /\ BothSeeded(x, z)
        /\ seedOf[x] = seedOf[y]
        /\ seedOf[x] # seedOf[z]
        /\ Len(draws[x]) = 2 /\ Len(draws[y]) = 2 /\ Len(draws[z]) = 2

\* Identity i2 was made, under another Provider and with the same name, from
\* the keypair bytes exported from Identity i1.
RecoveredFrom(i2, i1) ==
    /\ identities[i1].exists
    /\ identities[i2].exists
    /\ madeBy[i2].provider # madeBy[i1].provider
    /\ madeBy[i2].name = madeBy[i1].name
    /\ madeBy[i2].bytes = Some(export_keypair_bytes(identities[i1]).val)

\* C14: for an Identity i1 made under Provider p1 with name n,
\* Identity.create(p2, n, exportKeypairBytes(i1)) under another Provider p2
\* succeeds (the KeyStore accepting the write) and yields an Identity whose
\* public signing key and credential equal i1's and whose KeyPackages carry
\* the signature key of i1's KeyPackages.
C14_IdentityRecovery ==
    /\ \A i1 \in IdentityIds : \A x2 \in ProviderIds : \A fresh \in PrivKeys :
           (identities[i1].exists /\ x2 # madeBy[i1].provider) =>
               LET b == export_keypair_bytes(identities[i1])
                   r == Identity_create(providers[x2], madeBy[i1].name, Some(b.val),
                                        fresh, TRUE)
               IN  /\ b.outcome = "ok"
                   /\ r.outcome = "ok"
                   /\ get_public_key_bytes(r.val) = get_public_key_bytes(identities[i1])
                   /\ r.val.credential_with_key = identities[i1].credential_with_key
                   /\ get_key_package(r.provider.ks, KeyPackageOf(r.val, 1), TRUE)
                          .val.signature_key
                        = get_key_package(providers[madeBy[i1].provider].ks,
                                          KeyPackageOf(identities[i1], 1), TRUE)
                              .val.signature_key
    /\ \A i1, i2 \in IdentityIds :
           RecoveredFrom(i2, i1) =>
               /\ get_public_key_bytes(identities[i2]) = get_public_key_bytes(identities[i1])
               /\ identities[i2].credential_with_key = identities[i1].credential_with_key

\* C14 witness: an Identity made with a generated keypair, its keypair bytes
\* exported, and an Identity recovered from them under another Provider.
C14_Witness ==
    \E i1, i2 \in IdentityIds :
        /\ RecoveredFrom(i2, i1)
        /\ madeBy[i1].bytes = None
        /\ export_keypair_bytes(identities[i1]).val \in exported

\* C15: a successful Identity.create leaves the generated or recovered
\* signing keypair in the provider's KeyStore, adding nothing else; with
\* keypair bytes that do not deserialize it fails with SerializationFailure
\* and the KeyStore is unchanged.
C15_CreatePersistsKey ==
    /\ \A x \in ProviderIds : \A name \in Names : \A keypair_bytes \in KeypairInputs :
       \A fresh \in PrivKeys : \A storeOk \in BOOLEAN :
           LET r == Identity_create(providers[x], name, keypair_bytes, fresh, storeOk)
           IN  /\ r.outcome = "ok" =>
                      /\ StoredKeypair(r.val.keypair) \in r.provider.ks
                      /\ r.provider.ks
                             = providers[x].ks \cup {StoredKeypair(r.val.keypair)}
                      /\ r.val.keypair.private
                             = IF keypair_bytes.some
                               THEN SubSeq(keypair_bytes.bytes, 2, 1 + keypair_bytes.bytes[1])
                               ELSE fresh
               /\ (keypair_bytes.some /\ keypair_bytes.bytes \in BadKeypairBytes) =>
                      /\ r.outcome = "err"
                      /\ r.err = SerializationFailure
                      /\ r.val = NoIdentity
                      /\ r.provider = providers[x]
    /\ \A i \in IdentityIds :
           identities[i].exists =>
               StoredKeypair(identities[i].keypair) \in providers[madeBy[i].provider].ks

\* C15 witness: one Identity with a generated key and one with a recovered
\* key, each key in its Provider's KeyStore, and a create that was refused
\* for malformed bytes under a Provider whose KeyStore is still empty.
C15_Witness ==
    \E i, j, k \in IdentityIds :
        /\ identities[i].exists /\ madeBy[i].bytes = None
        /\ identities[j].exists /\ madeBy[j].bytes.some
        /\ madeBy[k].err = SerializationFailure
        /\ madeBy[k].bytes.bytes \in BadKeypairBytes
        /\ ~identities[k].exists
        /\ providers[madeBy[k].provider].ks = {}

\* C17: processMessage given a commit of the Group's own group whose epoch is
\* not the Group's current epoch fails with the engine's stale-epoch error and
\* leaves the Group as it was; so no Group is derived from the same commit
\* twice.
C17_StaleCommitRejected ==
    /\ \A p \in Parties : \A bytes \in Inbound :
           (group[p].exists /\ Kind(bytes) = "commit" /\ bytes.gid = group[p].gid
                /\ bytes.epoch # group[p].epoch) =>
               LET r == process_message(group[p], bytes)
               IN  /\ r.outcome = "err"
                   /\ r.err = "WrongEpoch"
                   /\ r.group = group[p]
    /\ \A p \in Parties : \A j, k \in DOMAIN lineage[p] :
           lineage[p][j] = lineage[p][k] => j = k

\* C17 witness: a member that merged an inbound commit is handed that commit
\* again, now one epoch behind, and processMessage refuses it.
C17_Witness ==
    \E p \in Parties : \E bytes \in net :
        /\ how[p] = "process_message"
        /\ Kind(bytes) = "commit"
        /\ bytes.epoch + 1 = group[p].epoch
        /\ lineage[p][Len(lineage[p])] = Event(bytes.sender, bytes.adds)
        /\ process_message(group[p], bytes).err = "WrongEpoch"

\* C18: join given a welcome and a tree exported at another epoch than the one
\* the welcome targets fails with an error and creates no Group; so for the
\* tree last exported, and for the tree any Group would export now.
C18_TreeOfAnotherEpoch ==
    \A p \in Parties : \A w \in net :
        (~aborted[p] /\ ~group[p].exists /\ w.wire = "welcome") =>
            /\ \A tree \in trees :
                   (tree.gid = w.gid /\ exportedAt # w.epoch) =>
                       LET r == join(ks[p], w, tree)
                       IN  r.outcome = "err" /\ r.group = NoGroup
            /\ \A q \in Parties :
                   (group[q].exists /\ group[q].gid = w.gid
                        /\ group[q].epoch # w.epoch) =>
                       LET r == join(ks[p], w, export_ratchet_tree(group[q]))
                       IN  r.outcome = "err" /\ r.group = NoGroup

\* C18 witness: the adder exported its tree after proposeAndCommitAdd and
\* before mergePendingCommit; the party the welcome invites holds the key
\* package's private key, and join with that welcome and that tree fails.
C18_Witness ==
    \E F, M \in Parties : \E w \in net :
        /\ group[F].state = "PendingCommit"
        /\ trees = {export_ratchet_tree(group[F])}
        /\ exportedAt = group[F].epoch
        /\ w.wire = "welcome" /\ w.sender = F /\ w.epoch = group[F].epoch + 1
        /\ ~group[M].exists /\ Mine(ks[M], w) # {}
        /\ \A tree \in trees : join(ks[M], w, tree).err = "TreeHashMismatch"

\* C19: whenever proposeAndCommitAdd returns an error, the Group's epoch,
\* pending proposals and pending commit are the same as before the call.
C19_AddAtomicOnFailure ==
    \A p \in Parties : \A kp \in Published :
        group[p].exists =>
            LET r == propose_and_commit_add(group[p], kp)
            IN  r.outcome = "err" =>
                    /\ r.group.epoch = group[p].epoch
                    /\ r.group.proposals = group[p].proposals
                    /\ r.group.state = group[p].state
                    /\ r.group.staged = group[p].staged

\* C20: a Group holds at most one pending commit: proposeAndCommitAdd on a
\* Group in PendingCommit fails, returns no messages and leaves the Group and
\* its pending commit as they were; and no member has produced two commits or
\* two welcomes for one epoch.
C20_OnePendingCommit ==
    /\ \A p \in Parties :
           /\ Cardinality(group[p].staged) <= 1
           /\ group[p].state = "PendingCommit" <=> group[p].staged # {}
    /\ \A p \in Parties : \A kp \in Published :
           group[p].state = "PendingCommit" =>
               LET r == propose_and_commit_add(group[p], kp)
               IN  /\ r.outcome = "err"
                   /\ r.out = {}
                   /\ r.group = group[p]
    /\ \A a, b \in net :
           (Kind(a) \in {"commit", "welcome"} /\ Kind(a) = Kind(b) /\ a.gid = b.gid
                /\ a.sender = b.sender
                /\ a.epoch = b.epoch) => a = b

\* C20 witness: a Group in PendingCommit whose commit is in net, and the key
\* package of a party that commit does not add: a second proposeAndCommitAdd
\* is refused.
C20_Witness ==
    \E p \in Parties : \E kp \in Published : \E c \in net :
        /\ group[p].state = "PendingCommit"
        /\ Kind(c) = "commit" /\ c.sender = p /\ c.epoch = group[p].epoch
        /\ kp.owner \notin group[p].members
        /\ \A st \in group[p].staged : kp.owner \notin Added(st.props)
        /\ propose_and_commit_add(group[p], kp).outcome = "err"

\* Commit c and proposal m come from one proposeAndCommitAdd of another member
\* of p's group, made at p's epoch.
AddOf(p, c, m) ==
    /\ group[p].exists
    /\ Kind(c) = "commit" /\ Kind(m) = "proposal"
    /\ c.sender = m.sender /\ c.sender # p /\ c.sender \in group[p].members
    /\ c.gid = group[p].gid /\ m.gid = c.gid
    /\ c.epoch = group[p].epoch /\ m.epoch = c.epoch
    /\ c.key = group[p].secret /\ m.key = c.key
    /\ m.adds \subseteq c.adds

\* The Group of the committer of c once it has merged c: what
\* mergePendingCommit makes of its pending commit, or what it holds if it has
\* merged already.
CommitterAfter(c) ==
    LET F == c.sender
    IN  {g \in {merge_pending_commit(group[F]).group, group[F]} :
            /\ g.exists
            /\ g.state = "Active"
            /\ g.epoch = c.epoch + 1
            /\ g.secret = KDF(c.key, F, c.adds)}

====
